---- MODULE Spec2Model ----
(***************************************************************************)
(* The agentic tool-call loop of src/gemini.mjs: run() sends the user      *)
(* prompt, and while the model's turn holds function calls it asks the     *)
(* operator about each one, executes the approved ones, and sends the      *)
(* batch of function responses back.                                       *)
(*                                                                         *)
(* JavaScript strings that the code inspects character by character (the   *)
(* operator's answer, command output, file content) are sequences of       *)
(* one-character strings.  Error messages are only tested for truthiness   *)
(* and are TLA+ strings.                                                   *)
(***************************************************************************)
EXTENDS Integers, Sequences, FiniteSets, TLC

(* ------------------------------ bounds --------------------------------- *)

\* Number of turns with function calls the transport may return in one run.
MaxTurns == 2

\* Number of parts in one turn of the model.
MaxParts == 2

(* ------------------------ program constants ---------------------------- *)

\* src/gemini.mjs:179  if (output.length > 2000)
OutputBound == 2000

\* src/gemini.mjs:180  "\n...[OUTPUT TRUNCATED]..."
TruncationMarker ==
  << "\n", ".", ".", ".", "[", "O", "U", "T", "P", "U", "T", " ",
     "T", "R", "U", "N", "C", "A", "T", "E", "D", "]", ".", ".", "." >>

\* src/gemini.mjs:187  `Successfully wrote file: ${call.args.path}`
WrotePrefix ==
  << "S", "u", "c", "c", "e", "s", "s", "f", "u", "l", "l", "y", " ",
     "w", "r", "o", "t", "e", " ", "f", "i", "l", "e", ":", " " >>

\* src/gemini.mjs:163  JSON.stringify(call.args).length > 150
DisplayBound == 150

\* src/gemini.mjs:164  '...}'
Ellipsis == << ".", ".", ".", "}" >>

DeniedMsg == "User denied permission."
SkippedMsg == "User explicitly skipped this action."

(* ----------------------------- JS values ------------------------------- *)

\* JavaScript's undefined where a string is expected: no character sequence.
Undefined == << "<undefined>" >>

\* errorMsg = null (line 172)
Null == "<null>"

\* The message of the TypeError thrown for an undefined argument.
TypeErrorMsg == "The \"path\" argument must be of type string. Received undefined"
ENOENTMsg == "ENOENT: no such file or directory"

\* n copies of the character c
Rep(c, n) == [i \in 1..n |-> c]

\* String.prototype.toLowerCase on the characters the operator can type here
LowerChar(c) ==
  CASE c = "Y" -> "y"
    [] c = "S" -> "s"
    [] c = "K" -> "k"
    [] c = "I" -> "i"
    [] c = "P" -> "p"
    [] c = "N" -> "n"
    [] c = "E" -> "e"
    [] OTHER -> c

toLowerCase(s) == [i \in 1..Len(s) |-> LowerChar(s[i])]

\* JavaScript truthiness of errorMsg (line 201): null and "" are falsy
Truthy(m) == m # Null /\ m # ""

(* ------------------------------ inputs --------------------------------- *)

\* lines the operator can type at the approval prompt
Answers ==
  { << >>, <<"y">>, <<"Y">>, <<"n">>, <<"y", "e", "s">>, <<"Y", " ">>,
    <<"s", "k", "i", "p">>, <<"S", "K", "I", "P">>, <<"S", "k", "i", "p">>,
    <<"s", "k", "i", "p", " ">> }

\* the one file the model's calls name, in a sub-directory of cwd
FilePath == <<"d", "/", "b">>

\* file content; Missing when the file does not exist
Missing == << "<missing>" >>
Contents == { << >>, <<"x">> }

\* a file longer than any truncated shell output
LongFile == Rep("c", OutputBound + 30)

\* a byte that is not valid UTF-8; U+FFFD, which decoding puts in its place;
\* and the three bytes EF BF BD that encode U+FFFD
InvalidByte == "<FF>"
ReplacementChar == "<U+FFFD>"
ReplacementBytes == "<EF BF BD>"

\* readFileSync(..., 'utf8'): bytes to string (line 189)
Utf8Decode(bytes) ==
  [i \in 1..Len(bytes) |->
     IF bytes[i] \in {InvalidByte, ReplacementBytes} THEN ReplacementChar ELSE bytes[i]]

\* writeFileSync of a string: string to bytes (line 186)
Utf8Encode(str) ==
  [i \in 1..Len(str) |-> IF str[i] = ReplacementChar THEN ReplacementBytes ELSE str[i]]

\* what a shell command can print
Outputs ==
  { << >>, <<"o", "k">>, Rep("a", OutputBound), Rep("a", OutputBound + 1),
    Rep("b", OutputBound + 7) }

\* err.message of a failing execSync / mkdirSync / writeFileSync / readFileSync
Msgs == { "", "Command failed: ls", "EACCES: permission denied" }

\* how the execution of one approved action goes
Outcomes ==
  { [ok |-> TRUE, out |-> o, stage |-> "none", msg |-> Null] : o \in Outputs }
  \cup
  { [ok |-> FALSE, out |-> << >>, stage |-> s, msg |-> m] :
      s \in {"first", "second"}, m \in Msgs }

\* the answers and outcomes the runs of the whole loop draw from: one answer per
\* decision, one output, one failure at either stage
LoopAnswers == { <<"y">>, <<"n">>, <<"s", "k", "i", "p">> }
LoopOutcomes ==
  { o \in Outcomes : (o.ok /\ o.out = <<"o", "k">>)
                     \/ (~o.ok /\ o.msg = "Command failed: ls") }

\* call.args: absent, or an object with some of command / path / content
NoArgs == [present |-> FALSE, command |-> Undefined, path |-> Undefined,
           content |-> Undefined]
Args(c, p, t) == [present |-> TRUE, command |-> c, path |-> p, content |-> t]

FunctionCall(n, a) == [name |-> n, args |-> a]

\* the function calls the model may put into a turn
Calls ==
  { FunctionCall("run_shell_command", Args(<<"l", "s">>, Undefined, Undefined)),
    FunctionCall("write_file", Args(Undefined, FilePath, <<"x">>)),
    FunctionCall("read_file", Args(Undefined, FilePath, Undefined)),
    FunctionCall("delete_file", Args(Undefined, FilePath, Undefined)),
    FunctionCall("read_file", NoArgs) }

\* write_file calls whose serialized args have DisplayBound characters, one
\* more, and many more (with a quote to escape)
WriteOf(t) == FunctionCall("write_file", Args(Undefined, FilePath, t))
LongArgsCalls ==
  { WriteOf(Rep("z", DisplayBound - 27)), WriteOf(Rep("z", DisplayBound - 26)),
    WriteOf(<< "\"" >> \o Rep("z", DisplayBound + 49)) }

NoCall == FunctionCall("", NoArgs)

TextPart(t) == [kind |-> "text", text |-> t, functionCall |-> NoCall]
CallPart(c) == [kind |-> "functionCall", text |-> << >>, functionCall |-> c]

Parts == { TextPart(<<"h", "i">>) } \cup { CallPart(c) : c \in Calls }

SeqsUpTo(S, n) == UNION { [1..k -> S] : k \in 0..n }

\* result.response of a resolved sendMessage; malformed: no candidates
Turn(ps) == [malformed |-> FALSE, parts |-> ps]
MalformedTurn == [malformed |-> TRUE, parts |-> << >>]
Turns == { Turn(ps) : ps \in SeqsUpTo(Parts, MaxParts) }

(* ------------------- the pure steps of the loop ------------------------ *)

\* p => p.functionCall  (lines 154, 156)
HasFunctionCall(p) == p.kind = "functionCall"

\* a loop that goes on while the turn holds no text
PendingWithoutText(parts) == ~\E i \in 1..Len(parts) : parts[i].kind = "text"

\* parts.some(p => p.functionCall)  (line 154)
Pending(parts) == \E i \in 1..Len(parts) : HasFunctionCall(parts[i])

\* only the first function call of the turn, as parts.find(...) would give
FunctionCallsFirstOnly(parts) ==
  LET kept == SelectSeq(parts, HasFunctionCall)
  IN  IF kept = << >> THEN << >> ELSE << kept[1].functionCall >>

\* parts.filter(p => p.functionCall).map(p => p.functionCall)  (line 156)
FunctionCallsOf(parts) ==
  LET kept == SelectSeq(parts, HasFunctionCall)
  IN  [i \in 1..Len(kept) |-> kept[i].functionCall]

\* result.response.text(): the text parts of the turn, concatenated (line 216)
RECURSIVE TextOf(_)
TextOf(parts) ==
  IF parts = << >> THEN << >>
  ELSE (IF HasFunctionCall(Head(parts)) THEN << >> ELSE Head(parts).text)
       \o TextOf(Tail(parts))

\* approval on any answer that starts with y or Y
DecisionAnyY(ans) ==
  IF ans # << >> /\ LowerChar(ans[1]) = "y" THEN "approve"
  ELSE IF toLowerCase(ans) = <<"s", "k", "i", "p">> THEN "skip"
  ELSE "deny"

\* the three-way branch on answer.toLowerCase()  (lines 174, 194, 196)
Decision(ans) ==
  IF toLowerCase(ans) = <<"y">> THEN "approve"
  ELSE IF toLowerCase(ans) = <<"s", "k", "i", "p">> THEN "skip"
  ELSE "deny"

\* truncation that also cuts an output of exactly OutputBound characters
TruncateOutputInclusive(output) ==
  IF Len(output) >= OutputBound
  THEN SubSeq(output, 1, OutputBound) \o TruncationMarker
  ELSE output

\* lines 179-181
TruncateOutput(output) ==
  IF Len(output) > OutputBound
  THEN SubSeq(output, 1, OutputBound) \o TruncationMarker
  ELSE output

\* the characters of a JSON string literal: quotes, backslashes and newlines
\* are escaped
RECURSIVE JSONEscape(_)
JSONEscape(str) ==
  IF str = << >> THEN << >>
  ELSE IF Len(str) = 1
  THEN (CASE str[1] = "\"" -> << "\\", "\"" >>
          [] str[1] = "\\" -> << "\\", "\\" >>
          [] str[1] = "\n" -> << "\\", "n" >>
          [] OTHER -> str)
  ELSE LET half == Len(str) \div 2
       IN  JSONEscape(SubSeq(str, 1, half)) \o JSONEscape(SubSeq(str, half + 1, Len(str)))

JSONQuote(str) == << "\"" >> \o JSONEscape(str) \o << "\"" >>

\* one "key":"value" member; a member whose value is undefined is left out
JSONMember(key, value) ==
  IF value = Undefined THEN << >> ELSE << JSONQuote(key) \o << ":" >> \o JSONQuote(value) >>

RECURSIVE JSONJoin(_)
JSONJoin(members) ==
  IF members = << >> THEN << >>
  ELSE IF Len(members) = 1 THEN members[1]
  ELSE members[1] \o << "," >> \o JSONJoin(Tail(members))

\* JSON.stringify(call.args) for an args object (lines 163-165)
JSONStringify(args) ==
  << "{" >>
  \o JSONJoin(JSONMember(<<"c", "o", "m", "m", "a", "n", "d">>, args.command)
               \o JSONMember(<<"p", "a", "t", "h">>, args.path)
               \o JSONMember(<<"c", "o", "n", "t", "e", "n", "t">>, args.content))
  \o << "}" >>

\* an argument text that is shown whole, whatever its length
SafeArgsLogUncut(args) == JSONStringify(args)

\* lines 163-165: safeArgsLog
SafeArgsLog(args) ==
  IF Len(JSONStringify(args)) > DisplayBound
  THEN SubSeq(JSONStringify(args), 1, DisplayBound) \o Ellipsis
  ELSE JSONStringify(args)

\* line 167: what the operator is shown of the call
Shown(call) == [name |-> call.name, args |-> SafeArgsLog(call.args)]
NotShown == [name |-> "", args |-> << >>]

\* a loop that takes the calls from the end of the list
CurrentCallFromEnd(calls, i) == calls[Len(calls) + 1 - i]

\* line 161: the call of the i-th iteration of for (const call of functionCalls)
CurrentCall(calls, i) == calls[i]

ErrorResponse(n, m) == [name |-> n, kind |-> "error", error |-> m, content |-> << >>]
ContentResponse(n, o) == [name |-> n, kind |-> "content", error |-> Null, content |-> o]

\* lines 201-209: the entry pushed for one call
MakeResponse(n, errorMsg, output) ==
  IF Truthy(errorMsg) THEN ErrorResponse(n, errorMsg) ELSE ContentResponse(n, output)

\* what the try block of lines 175-193 leaves behind
\* (threw: the catch of line 191 ran; ran: a subprocess or file operation was
\* started; raw: the string execSync or readFileSync returned)
Effect(threw, ran, errorMsg, output, raw, f, d) ==
  [threw |-> threw, ran |-> ran, errorMsg |-> errorMsg, output |-> output,
   raw |-> raw, file |-> f, dir |-> d]

\* lines 176-181: execSync and the truncation of its output
ExecShell(call, o, f, d) ==
  IF call.args.command = Undefined
  THEN Effect(TRUE, FALSE, TypeErrorMsg, << >>, << >>, f, d)
  ELSE IF o.ok
  THEN Effect(FALSE, TRUE, Null, TruncateOutput(o.out), o.out, f, d)
  ELSE Effect(TRUE, TRUE, o.msg, << >>, << >>, f, d)

\* a write that appends to the file instead of replacing it
ExecWriteAppend(call, o, f, d) ==
  IF call.args.path = Undefined
  THEN Effect(TRUE, FALSE, TypeErrorMsg, << >>, << >>, f, d)
  ELSE IF ~o.ok /\ o.stage = "first"
  THEN Effect(TRUE, TRUE, o.msg, << >>, << >>, f, d)
  ELSE IF call.args.content = Undefined
  THEN Effect(TRUE, TRUE, TypeErrorMsg, << >>, << >>, f, TRUE)
  ELSE IF ~o.ok
  THEN Effect(TRUE, TRUE, o.msg, << >>, << >>, f, TRUE)
  ELSE Effect(FALSE, TRUE, Null, WrotePrefix \o call.args.path, << >>,
              (IF f = Missing THEN << >> ELSE f) \o Utf8Encode(call.args.content), TRUE)

\* lines 182-187: mkdirSync of the parent directory, then writeFileSync
ExecWrite(call, o, f, d) ==
  IF call.args.path = Undefined
  THEN Effect(TRUE, FALSE, TypeErrorMsg, << >>, << >>, f, d)
  ELSE IF ~o.ok /\ o.stage = "first"
  THEN Effect(TRUE, TRUE, o.msg, << >>, << >>, f, d)
  ELSE IF call.args.content = Undefined
  THEN Effect(TRUE, TRUE, TypeErrorMsg, << >>, << >>, f, TRUE)
  ELSE IF ~o.ok
  THEN Effect(TRUE, TRUE, o.msg, << >>, << >>, f, TRUE)
  ELSE Effect(FALSE, TRUE, Null, WrotePrefix \o call.args.path, << >>,
              Utf8Encode(call.args.content), TRUE)

\* lines 188-189: readFileSync
ExecRead(call, o, f, d) ==
  IF call.args.path = Undefined
  THEN Effect(TRUE, FALSE, TypeErrorMsg, << >>, << >>, f, d)
  ELSE IF ~d \/ f = Missing
  THEN Effect(TRUE, TRUE, ENOENTMsg, << >>, << >>, f, d)
  ELSE IF ~o.ok
  THEN Effect(TRUE, TRUE, o.msg, << >>, << >>, f, d)
  ELSE Effect(FALSE, TRUE, Null, Utf8Decode(f), Utf8Decode(f), f, d)

\* lines 175-193: the dispatch on call.name; no branch for any other name
Execute(call, o, f, d) ==
  IF call.name = "run_shell_command" THEN ExecShell(call, o, f, d)
  ELSE IF call.name = "write_file" THEN ExecWrite(call, o, f, d)
  ELSE IF call.name = "read_file" THEN ExecRead(call, o, f, d)
  ELSE Effect(FALSE, FALSE, Null, << >>, << >>, f, d)

\* no branch for skip: every answer but y is reported as a denial
HandleSkipAsDeny(call, ans, o, f, d) ==
  IF Decision(ans) = "approve" THEN Execute(call, o, f, d)
  ELSE Effect(FALSE, FALSE, DeniedMsg, << >>, << >>, f, d)

\* lines 171-198: output and errorMsg after the operator's answer
Handle(call, ans, o, f, d) ==
  IF Decision(ans) = "approve" THEN Execute(call, o, f, d)
  ELSE IF Decision(ans) = "skip"
  THEN Effect(FALSE, FALSE, SkippedMsg, << >>, << >>, f, d)
  ELSE Effect(FALSE, FALSE, DeniedMsg, << >>, << >>, f, d)

(* ------------------------------ state ---------------------------------- *)

VARIABLES
  pc,                \* where run() stands
  userPrompt,        \* the prompt words of the command line, joined (line 142)
  rlOpen,            \* the readline interface rl is open (lines 123, 221)
  outstanding,       \* chat.sendMessage calls not yet settled
  sent,              \* the argument of sendMessage on its way to the service
  result,            \* the turn the last sendMessage resolved to
  functionCalls,     \* line 156
  functionResponses, \* line 158
  idx,               \* position of the for loop of line 161 in functionCalls
  answer,            \* line 169
  shown,             \* the "[AI Action Request]" line of the prompt pending or last answered
  load,              \* module load, lines 23-40: config, -m and the model resolved
  file,              \* content of the file at FilePath, or Missing
  dir,               \* the directory of FilePath exists
  printed,           \* what was printed as "[Gemini]" (line 216)
  fatal,             \* number of "[Fatal Error]" lines printed (line 219)
  sendCount,         \* chat.sendMessage calls made
  promptCount,       \* approval prompts issued
  fcTurns,           \* turns with function calls received
  sumBatch,          \* function calls received, over all turns
  transportFailed,   \* a sendMessage call rejected or resolved to a malformed response
  last               \* what lines 171-198 did for the call just handled

vars == << pc, userPrompt, rlOpen, outstanding, sent, result, functionCalls,
           functionResponses, idx, answer, shown, load, file, dir, printed, fatal, sendCount,
           promptCount, fcTurns, sumBatch, transportFailed, last >>

NoAnswer == << "<none>" >>
NotPrinted == << "<none>" >>
NoMessage == [kind |-> "none", text |-> << >>, batch |-> << >>]
PromptMessage(t) == [kind |-> "prompt", text |-> t, batch |-> << >>]
BatchMessage(b) == [kind |-> "batch", text |-> << >>, batch |-> b]
NoTurn == Turn(<< >>)
\* of the effect of lines 171-198, whether the file or its directory changed
Done(e, f, d) ==
  [threw |-> e.threw, ran |-> e.ran, errorMsg |-> e.errorMsg, raw |-> e.raw,
   changed |-> (e.file # f \/ e.dir # d)]
NoEffect ==
  [threw |-> FALSE, ran |-> FALSE, errorMsg |-> Null, raw |-> << >>, changed |-> FALSE]

\* a JavaScript undefined where the model keeps a plain string
UndefinedValue == "<undefined>"

\* the aliases a models mapping may define
ModelAliases == { "flash", "pro" }
NoModels == [a \in ModelAliases |-> UndefinedValue]

\* a config value: null, or an object with defaultModel and models, either of
\* which may be undefined
ConfigObject(d, has, m) ==
  [kind |-> "object", defaultModel |-> d, hasModels |-> has, models |-> m]
NullConfig ==
  [kind |-> "null", defaultModel |-> UndefinedValue, hasModels |-> FALSE, models |-> NoModels]

\* line 24: the hardcoded config
HardcodedConfig ==
  ConfigObject("flash", TRUE,
               [a \in ModelAliases |-> IF a = "flash" THEN "gemini-3-flash" ELSE UndefinedValue])

\* the models mapping of a config.json that has one
FileModels ==
  [a \in ModelAliases |-> IF a = "flash" THEN "gemini-3-flash" ELSE "gemini-3-pro"]

\* what config.json may be: absent, not readable, not JSON, or JSON text of
\* one of six shapes
ConfigFiles ==
  { "missing", "unreadable", "invalid", "null", "empty object", "no default",
    "no models", "bad default", "well-formed" }

\* line 27: JSON.parse of the text of a config.json that is JSON
ParsedConfig(f) ==
  CASE f = "null" -> NullConfig
    [] f = "empty object" -> ConfigObject(UndefinedValue, FALSE, NoModels)
    [] f = "no default" -> ConfigObject(UndefinedValue, TRUE, FileModels)
    [] f = "no models" -> ConfigObject("pro", FALSE, NoModels)
    [] f = "bad default" -> ConfigObject("typo", TRUE, FileModels)
    [] OTHER -> ConfigObject("pro", TRUE, FileModels)

\* lines 34-37: no -m with a value after it, or the value after -m
NoFlag == "<none>"
Flags == { NoFlag, "pro", "typo", "constructor" }

\* config.models[alias]: an own property, or one every object inherits
Lookup(models, alias) ==
  IF alias \in ModelAliases THEN models[alias]
  ELSE IF alias = "constructor" THEN "<function Object>"
  ELSE UndefinedValue

\* a || b on these values
Or(a, b) == IF a \notin {UndefinedValue, ""} THEN a ELSE b

\* module load before line 25, for a config.json f and a -m value g
Loading(f, g) ==
  [pc |-> "begin", cfgFile |-> f, flag |-> g, config |-> HardcodedConfig,
   alias |-> UndefinedValue, model |-> UndefinedValue, warned |-> FALSE]

\* module load has gone through: a well-formed config.json, no -m
Loaded ==
  [pc |-> "loaded", cfgFile |-> "well-formed", flag |-> NoFlag,
   config |-> ParsedConfig("well-formed"), alias |-> "pro", model |-> "gemini-3-pro",
   warned |-> FALSE]

Prompts == { << >>, <<"g", "o">> }

Init ==
  /\ pc = "start"
  /\ userPrompt \in Prompts
  /\ rlOpen = TRUE
  /\ outstanding = 0
  /\ sent = NoMessage
  /\ result = NoTurn
  /\ functionCalls = << >>
  /\ functionResponses = << >>
  /\ idx = 1
  /\ answer = NoAnswer
  /\ shown = NotShown
  /\ load = Loaded
  /\ file \in {Missing, << >>}
  /\ dir = (file # Missing)
  /\ printed = NotPrinted
  /\ fatal = 0
  /\ sendCount = 0
  /\ promptCount = 0
  /\ fcTurns = 0
  /\ sumBatch = 0
  /\ transportFailed = FALSE
  /\ last = NoEffect

\* a catch that prints the error and starts the conversation over
FatalRetry ==
  /\ fatal' = fatal + 1
  /\ rlOpen' = FALSE
  /\ pc' = "start"

\* lines 218-222: catch prints the fatal error, finally closes rl, run() returns
FatalExit ==
  /\ fatal' = fatal + 1
  /\ rlOpen' = FALSE
  /\ pc' = "exited"

\* lines 143-146: empty prompt, usage line, process.exit(0)
UsageExit ==
  /\ pc = "start"
  /\ userPrompt = << >>
  /\ pc' = "exited"
  /\ UNCHANGED << shown, load, userPrompt, rlOpen, outstanding, sent, result, functionCalls,
                  functionResponses, idx, answer, file, dir, printed, fatal,
                  sendCount, promptCount, fcTurns, sumBatch,
                  transportFailed, last >>

\* lines 148-151: the first chat.sendMessage
SendPrompt ==
  /\ pc = "start"
  /\ userPrompt # << >>
  /\ sent' = PromptMessage(userPrompt)
  /\ outstanding' = outstanding + 1
  /\ sendCount' = sendCount + 1
  /\ pc' = "awaitSend"
  /\ UNCHANGED << shown, load, userPrompt, rlOpen, result, functionCalls, functionResponses,
                  idx, answer, file, dir, printed, fatal, promptCount, fcTurns, sumBatch, transportFailed, last >>

\* the service takes the request; the call stays outstanding until it settles
TransportAccept ==
  /\ pc = "awaitSend"
  /\ sent # NoMessage
  /\ sent' = NoMessage
  /\ UNCHANGED << shown, load, pc, userPrompt, rlOpen, outstanding, result, functionCalls,
                  functionResponses, idx, answer, file, dir, printed, fatal,
                  sendCount, promptCount, fcTurns, sumBatch, transportFailed, last >>

\* lines 151, 213: the awaited sendMessage rejects
TransportReject ==
  /\ pc = "awaitSend"
  /\ outstanding' = outstanding - 1
  /\ sent' = NoMessage
  /\ transportFailed' = TRUE
  /\ FatalExit
  /\ UNCHANGED << shown, load, userPrompt, result, functionCalls, functionResponses, idx,
                  answer, file, dir, printed, sendCount, promptCount, fcTurns, sumBatch, last >>

\* lines 151, 213: the awaited sendMessage resolves to a turn
TransportReply(t) ==
  /\ pc = "awaitSend"
  /\ sent = NoMessage
  /\ Pending(t.parts) => fcTurns < MaxTurns
  /\ outstanding' = outstanding - 1
  /\ result' = t
  /\ fcTurns' = IF Pending(t.parts) THEN fcTurns + 1 ELSE fcTurns
  /\ sumBatch' = sumBatch + Len(FunctionCallsOf(t.parts))
  /\ pc' = "loop"
  /\ UNCHANGED << shown, load, userPrompt, rlOpen, sent, functionCalls, functionResponses, idx,
                  answer, file, dir, printed, fatal, sendCount, promptCount,
                  transportFailed, last >>

\* line 154 on a response without candidates: TypeError, caught at line 218
LoopMalformed ==
  /\ pc = "loop"
  /\ result.malformed
  /\ transportFailed' = TRUE
  /\ FatalExit
  /\ UNCHANGED << shown, load, userPrompt, outstanding, sent, result, functionCalls,
                  functionResponses, idx, answer, file, dir, printed, sendCount,
                  promptCount, fcTurns, sumBatch, last >>

\* lines 154, 216, 221: no function call in the turn: print its text, close rl
LoopExit ==
  /\ pc = "loop"
  /\ ~result.malformed
  /\ ~Pending(result.parts)
  /\ printed' = TextOf(result.parts)
  /\ rlOpen' = FALSE
  /\ pc' = "exited"
  /\ UNCHANGED << shown, load, userPrompt, outstanding, sent, result, functionCalls,
                  functionResponses, idx, answer, file, dir, fatal, sendCount,
                  promptCount, fcTurns, sumBatch, transportFailed, last >>

\* lines 154-158: the turn holds function calls: start the batch
LoopEnter ==
  /\ pc = "loop"
  /\ ~result.malformed
  /\ Pending(result.parts)
  /\ functionCalls' = FunctionCallsOf(result.parts)
  /\ functionResponses' = << >>
  /\ idx' = 1
  /\ pc' = "for"
  /\ UNCHANGED << shown, load, userPrompt, rlOpen, outstanding, sent, result, answer, file,
                  dir, printed, fatal, sendCount, promptCount, fcTurns,
                  sumBatch, transportFailed, last >>

\* lines 161-165 for a call without args: JSON.stringify(undefined).length
\* throws outside the inner try, caught at line 218
RenderThrows ==
  /\ pc = "for"
  /\ idx <= Len(functionCalls)
  /\ ~CurrentCall(functionCalls, idx).args.present
  /\ FatalExit
  /\ UNCHANGED << shown, load, userPrompt, outstanding, sent, result, functionCalls,
                  functionResponses, idx, answer, file, dir, printed, sendCount,
                  promptCount, fcTurns, sumBatch, transportFailed, last >>

\* lines 161-169: show the call, ask the operator, wait for the line
AskPermission ==
  /\ pc = "for"
  /\ idx <= Len(functionCalls)
  /\ CurrentCall(functionCalls, idx).args.present
  /\ promptCount' = promptCount + 1
  /\ shown' = Shown(CurrentCall(functionCalls, idx))
  /\ answer' = NoAnswer
  /\ last' = NoEffect
  /\ pc' = "ask"
  /\ UNCHANGED << load, userPrompt, rlOpen, outstanding, sent, result, functionCalls,
                  functionResponses, idx, file, dir, printed, fatal, sendCount,
                  fcTurns, sumBatch, transportFailed >>

\* lines 169-210: the operator's line arrives; decide, execute, push the result
Answer(a, o) ==
  /\ pc = "ask"
  /\ LET call == CurrentCall(functionCalls, idx)
         e == Handle(call, a, o, file, dir)
     IN  /\ answer' = a
         /\ last' = Done(e, file, dir)
         /\ file' = e.file
         /\ dir' = e.dir
         /\ functionResponses' =
              Append(functionResponses, MakeResponse(call.name, e.errorMsg, e.output))
  /\ idx' = idx + 1
  /\ pc' = "for"
  /\ UNCHANGED << shown, load, userPrompt, rlOpen, outstanding, sent, result, functionCalls,
                  printed, fatal, sendCount, promptCount, fcTurns, sumBatch,
                  transportFailed >>

\* a loop that sends as soon as one response is there
BatchDoneAfterFirst(i, calls) == i > 1

\* the for loop of line 161 is over
BatchDone(i, calls) == i > Len(calls)

\* line 213: send the whole batch of responses
SendBatch ==
  /\ pc = "for"
  /\ BatchDone(idx, functionCalls)
  /\ sent' = BatchMessage(functionResponses)
  /\ outstanding' = outstanding + 1
  /\ sendCount' = sendCount + 1
  /\ functionCalls' = << >>
  /\ functionResponses' = << >>
  /\ idx' = 1
  /\ answer' = NoAnswer
  /\ shown' = NotShown
  /\ last' = NoEffect
  /\ pc' = "awaitSend"
  /\ UNCHANGED << load, userPrompt, rlOpen, result, file, dir, printed, fatal,
                  promptCount, fcTurns, sumBatch, transportFailed >>

Next ==
  \/ UsageExit
  \/ SendPrompt
  \/ TransportAccept
  \/ TransportReject
  \/ \E t \in Turns \cup {MalformedTurn} : TransportReply(t)
  \/ LoopMalformed
  \/ LoopExit
  \/ LoopEnter
  \/ RenderThrows
  \/ AskPermission
  \/ \E a \in LoopAnswers, o \in LoopOutcomes : Answer(a, o)
  \/ SendBatch

Spec == Init /\ [][Next]_vars

(* ------------- one batch, over every answer and outcome ---------------- *)

\* run() at the approval prompt of the first call of the first turn, a batch
\* of one or two calls
InitCall ==
  /\ pc = "ask"
  /\ userPrompt = <<"g", "o">>
  /\ rlOpen = TRUE
  /\ outstanding = 0
  /\ sent = NoMessage
  /\ \E cs \in SeqsUpTo({ x \in Calls : x.args.present }, 2) \cup { << x >> : x \in LongArgsCalls } :
        /\ cs # << >>
        /\ result = Turn([i \in 1..Len(cs) |-> CallPart(cs[i])])
        /\ functionCalls = cs
  /\ functionResponses = << >>
  /\ idx = 1
  /\ answer = NoAnswer
  /\ shown = Shown(functionCalls[1])
  /\ load = Loaded
  /\ file \in Contents \cup {Missing, LongFile, << "x", InvalidByte >>}
  /\ dir \in BOOLEAN
  /\ (file # Missing => dir)
  /\ printed = NotPrinted
  /\ fatal = 0
  /\ sendCount = 1
  /\ promptCount = 1
  /\ fcTurns = 1
  /\ sumBatch = Len(functionCalls)
  /\ transportFailed = FALSE
  /\ last = NoEffect

NextCall ==
  \/ \E a \in Answers, o \in Outcomes : Answer(a, o)
  \/ AskPermission
  \/ SendBatch

SpecCall == InitCall /\ [][NextCall]_vars

\* the contents a write_file call of the round trip carries, and the bytes
\* the file holds before it
RoundTripContents == { << >>, <<"x">>, <<"x", ReplacementChar>>, <<"y">> }
RoundTripFiles ==
  { Missing, << >>, <<"x">>, <<"x", InvalidByte>>, <<"x", ReplacementBytes>> }

\* run() at the approval prompt of the first call of a batch that reads the
\* file, writes it and reads it again
InitRoundTrip ==
  /\ pc = "ask"
  /\ userPrompt = <<"g", "o">>
  /\ rlOpen = TRUE
  /\ outstanding = 0
  /\ sent = NoMessage
  /\ \E c \in RoundTripContents :
        functionCalls = << FunctionCall("read_file", Args(Undefined, FilePath, Undefined)),
                           WriteOf(c),
                           FunctionCall("read_file", Args(Undefined, FilePath, Undefined)) >>
  /\ result = Turn([i \in 1..Len(functionCalls) |-> CallPart(functionCalls[i])])
  /\ functionResponses = << >>
  /\ idx = 1
  /\ answer = NoAnswer
  /\ shown = Shown(functionCalls[1])
  /\ load = Loaded
  /\ file \in RoundTripFiles
  /\ dir = (file # Missing)
  /\ printed = NotPrinted
  /\ fatal = 0
  /\ sendCount = 1
  /\ promptCount = 1
  /\ fcTurns = 1
  /\ sumBatch = Len(functionCalls)
  /\ transportFailed = FALSE
  /\ last = NoEffect

NextRoundTrip ==
  \/ \E a \in LoopAnswers, o \in LoopOutcomes : Answer(a, o)
  \/ AskPermission
  \/ SendBatch

SpecRoundTrip == InitRoundTrip /\ [][NextRoundTrip]_vars

\* everything but the state of module load
runVars ==
  << pc, userPrompt, rlOpen, outstanding, sent, result, functionCalls,
     functionResponses, idx, answer, shown, file, dir, printed, fatal, sendCount,
     promptCount, fcTurns, sumBatch, transportFailed, last >>

\* line 26: readFileSync of config.json
ReadConfig ==
  /\ load.pc = "begin"
  /\ load' = [load EXCEPT !.pc = IF load.cfgFile \in {"missing", "unreadable"}
                                 THEN "catch" ELSE "parse"]
  /\ UNCHANGED runVars

\* line 27: config = JSON.parse(configData)
ParseConfig ==
  /\ load.pc = "parse"
  /\ load' = IF load.cfgFile = "invalid"
             THEN [load EXCEPT !.pc = "catch"]
             ELSE [load EXCEPT !.pc = "select", !.config = ParsedConfig(load.cfgFile)]
  /\ UNCHANGED runVars

\* line 29: console.warn(chalk.orange(...)) in the catch; chalk is not part
\* of the source, and its export either has a function orange or the call
\* throws a TypeError that nothing catches
WarnDefault(throws) ==
  /\ load.pc = "catch"
  /\ load' = IF throws
             THEN [load EXCEPT !.pc = "crashed"]
             ELSE [load EXCEPT !.pc = "select", !.warned = TRUE]
  /\ UNCHANGED runVars

\* lines 33-37: selectedModelAlias
SelectAlias ==
  /\ load.pc = "select"
  /\ load' = IF load.config.kind = "null"
             THEN [load EXCEPT !.pc = "crashed"]
             ELSE [load EXCEPT !.pc = "resolve",
                               !.alias = IF load.flag # NoFlag THEN load.flag
                                         ELSE load.config.defaultModel]
  /\ UNCHANGED runVars

\* line 40: actualModelString
ResolveModel ==
  /\ load.pc = "resolve"
  /\ load' = IF ~load.config.hasModels
             THEN [load EXCEPT !.pc = "crashed"]
             ELSE [load EXCEPT !.pc = "loaded",
                               !.model = Or(Lookup(load.config.models, load.alias),
                                            Lookup(load.config.models,
                                                   load.config.defaultModel))]
  /\ UNCHANGED runVars

\* the start of module load, run() not yet called
InitLoad ==
  /\ pc = "start"
  /\ userPrompt = <<"g", "o">>
  /\ rlOpen = TRUE
  /\ outstanding = 0
  /\ sent = NoMessage
  /\ result = NoTurn
  /\ functionCalls = << >>
  /\ functionResponses = << >>
  /\ idx = 1
  /\ answer = NoAnswer
  /\ shown = NotShown
  /\ \E f \in ConfigFiles, g \in Flags : load = Loading(f, g)
  /\ file = Missing
  /\ dir = FALSE
  /\ printed = NotPrinted
  /\ fatal = 0
  /\ sendCount = 0
  /\ promptCount = 0
  /\ fcTurns = 0
  /\ sumBatch = 0
  /\ transportFailed = FALSE
  /\ last = NoEffect

NextLoad ==
  \/ ReadConfig
  \/ ParseConfig
  \/ \E throws \in BOOLEAN : WarnDefault(throws)
  \/ SelectAlias
  \/ ResolveModel

SpecLoad == InitLoad /\ [][NextLoad]_vars

(* ------------- the earlier loop of src/unnamed/part_001 ---------------- *)

\* part_001 line 95: parts.find(p => p.functionCall).functionCall
OldCall(parts) == SelectSeq(parts, HasFunctionCall)[1].functionCall

\* part_001 line 96: the call as logged; JSON.stringify(undefined) is undefined
\* and prints as the word
OldShown(call) ==
  [name |-> call.name,
   args |-> IF call.args.present THEN JSONStringify(call.args)
            ELSE <<"u", "n", "d", "e", "f", "i", "n", "e", "d">>]

\* part_001 lines 102-110: the try block; no truncation, no mkdirSync, and
\* call.args.command on a call without args throws inside the try
OldExecute(call, o, f, d) ==
  IF call.name = "run_shell_command"
  THEN (IF call.args.command = Undefined
        THEN Effect(TRUE, FALSE, TypeErrorMsg, << >>, << >>, f, d)
        ELSE IF o.ok THEN Effect(FALSE, TRUE, Null, o.out, o.out, f, d)
        ELSE Effect(TRUE, TRUE, o.msg, << >>, << >>, f, d))
  ELSE IF call.name = "write_file"
  THEN (IF call.args.path = Undefined \/ call.args.content = Undefined
        THEN Effect(TRUE, FALSE, TypeErrorMsg, << >>, << >>, f, d)
        ELSE IF ~d THEN Effect(TRUE, TRUE, ENOENTMsg, << >>, << >>, f, d)
        ELSE IF ~o.ok THEN Effect(TRUE, TRUE, o.msg, << >>, << >>, f, d)
        ELSE Effect(FALSE, TRUE, Null, WrotePrefix \o call.args.path, << >>,
                    Utf8Encode(call.args.content), d))
  ELSE IF call.name = "read_file" THEN ExecRead(call, o, f, d)
  ELSE Effect(FALSE, FALSE, Null, << >>, << >>, f, d)

\* part_001 lines 100-118: y runs the try block; any other answer, skip
\* included, is a denial
OldHandle(call, ans, o, f, d) ==
  IF toLowerCase(ans) = <<"y">> THEN OldExecute(call, o, f, d)
  ELSE Effect(FALSE, FALSE, DeniedMsg, << >>, << >>, f, d)

\* part_001 lines 111-117: functionResponse
OldResponse(n, ans, e) ==
  IF toLowerCase(ans) = <<"y">> /\ ~e.threw THEN ContentResponse(n, e.output)
  ELSE ErrorResponse(n, e.errorMsg)

\* part_001 line 88: empty prompt, usage line, process.exit(0)
OldUsageExit ==
  /\ pc = "start"
  /\ userPrompt = << >>
  /\ pc' = "exited"
  /\ UNCHANGED << shown, load, userPrompt, rlOpen, outstanding, sent, result, functionCalls,
                  functionResponses, idx, answer, file, dir, printed, fatal,
                  sendCount, promptCount, fcTurns, sumBatch,
                  transportFailed, last >>

\* part_001 lines 90-91: the first chat.sendMessage
OldSendPrompt ==
  /\ pc = "start"
  /\ userPrompt # << >>
  /\ sent' = PromptMessage(userPrompt)
  /\ outstanding' = outstanding + 1
  /\ sendCount' = sendCount + 1
  /\ pc' = "awaitSend"
  /\ UNCHANGED << shown, load, userPrompt, rlOpen, result, functionCalls, functionResponses,
                  idx, answer, file, dir, printed, fatal, promptCount, fcTurns, sumBatch, transportFailed, last >>

\* the service takes the request; what it got stays visible until it settles
OldTransportAccept ==
  /\ pc = "awaitSend"
  /\ sent # NoMessage
  /\ sent' = NoMessage
  /\ functionResponses' = << >>
  /\ UNCHANGED << shown, load, pc, userPrompt, rlOpen, outstanding, result, functionCalls,
                  idx, answer, file, dir, printed, fatal,
                  sendCount, promptCount, fcTurns, sumBatch, transportFailed, last >>

\* part_001 lines 91, 120: the awaited sendMessage rejects; run() has no
\* try, the rejection of run() is unhandled and ends the process
OldTransportReject ==
  /\ pc = "awaitSend"
  /\ outstanding' = outstanding - 1
  /\ sent' = NoMessage
  /\ transportFailed' = TRUE
  /\ pc' = "crashed"
  /\ UNCHANGED << shown, load, userPrompt, rlOpen, result, functionCalls, functionResponses,
                  idx, answer, file, dir, printed, fatal, sendCount, promptCount,
                  fcTurns, sumBatch, last >>

\* part_001 lines 91, 120: the awaited sendMessage resolves to a turn
OldTransportReply(t) ==
  /\ pc = "awaitSend"
  /\ sent = NoMessage
  /\ Pending(t.parts) => fcTurns < MaxTurns
  /\ outstanding' = outstanding - 1
  /\ result' = t
  /\ fcTurns' = IF Pending(t.parts) THEN fcTurns + 1 ELSE fcTurns
  /\ sumBatch' = sumBatch + Len(FunctionCallsOf(t.parts))
  /\ pc' = "loop"
  /\ UNCHANGED << shown, load, userPrompt, rlOpen, sent, functionCalls, functionResponses, idx,
                  answer, file, dir, printed, fatal, sendCount, promptCount,
                  transportFailed, last >>

\* part_001 line 94 on a response without candidates: an uncaught TypeError
OldLoopMalformed ==
  /\ pc = "loop"
  /\ result.malformed
  /\ transportFailed' = TRUE
  /\ pc' = "crashed"
  /\ UNCHANGED << shown, load, userPrompt, rlOpen, outstanding, sent, result, functionCalls,
                  functionResponses, idx, answer, file, dir, printed, fatal, sendCount,
                  promptCount, fcTurns, sumBatch, last >>

\* part_001 lines 94, 123-124: no function call: print the text, close rl
OldLoopExit ==
  /\ pc = "loop"
  /\ ~result.malformed
  /\ ~Pending(result.parts)
  /\ printed' = TextOf(result.parts)
  /\ rlOpen' = FALSE
  /\ pc' = "exited"
  /\ UNCHANGED << shown, load, userPrompt, outstanding, sent, result, functionCalls,
                  functionResponses, idx, answer, file, dir, fatal, sendCount,
                  promptCount, fcTurns, sumBatch, transportFailed, last >>

\* part_001 lines 94-98: take the first function call of the turn, log it, ask
OldAskPermission ==
  /\ pc = "loop"
  /\ ~result.malformed
  /\ Pending(result.parts)
  /\ functionCalls' = << OldCall(result.parts) >>
  /\ functionResponses' = << >>
  /\ idx' = 1
  /\ promptCount' = promptCount + 1
  /\ shown' = OldShown(OldCall(result.parts))
  /\ answer' = NoAnswer
  /\ last' = NoEffect
  /\ pc' = "ask"
  /\ UNCHANGED << load, userPrompt, rlOpen, outstanding, sent, result, file, dir, printed,
                  fatal, sendCount, fcTurns, sumBatch, transportFailed >>

\* part_001 lines 98-120: the operator's line arrives; decide, execute, and
\* send the one functionResponse
OldAnswer(a, o) ==
  /\ pc = "ask"
  /\ LET call == functionCalls[1]
         e == OldHandle(call, a, o, file, dir)
     IN  /\ answer' = a
         /\ last' = Done(e, file, dir)
         /\ file' = e.file
         /\ dir' = e.dir
         /\ functionResponses' = << OldResponse(call.name, a, e) >>
         /\ sent' = BatchMessage(<< OldResponse(call.name, a, e) >>)
  /\ idx' = 2
  /\ outstanding' = outstanding + 1
  /\ sendCount' = sendCount + 1
  /\ pc' = "awaitSend"
  /\ UNCHANGED << shown, load, userPrompt, rlOpen, result, functionCalls, printed, fatal,
                  promptCount, fcTurns, sumBatch, transportFailed >>

NextOld ==
  \/ OldUsageExit
  \/ OldSendPrompt
  \/ OldTransportAccept
  \/ OldTransportReject
  \/ \E t \in Turns \cup {MalformedTurn} : OldTransportReply(t)
  \/ OldLoopMalformed
  \/ OldLoopExit
  \/ OldAskPermission
  \/ \E a \in LoopAnswers, o \in LoopOutcomes : OldAnswer(a, o)

SpecOld == Init /\ [][NextOld]_vars

(* ------------------------------ claims --------------------------------- *)

\* the names of the function calls of a turn, in the order of its parts
RECURSIVE CallNames(_)
CallNames(parts) ==
  IF parts = << >> THEN << >>
  ELSE (IF Head(parts).kind = "functionCall"
        THEN << Head(parts).functionCall.name >> ELSE << >>)
       \o CallNames(Tail(parts))

\* the turn in result holds a function call
ResultHasCall == CallNames(result.parts) # << >>

\* the response pushed for the call just handled
LastResponse == functionResponses[Len(functionResponses)]
\* the call just handled
LastCall == functionCalls[idx - 1]
\* a call of the batch has just been handled
Handled == pc = "for" /\ idx > 1 /\ answer # NoAnswer

\* C1: the batch sent after a turn with k >= 1 function calls holds exactly k
\* function responses, and the i-th response carries the name of the i-th
\* function call of that turn.
C1_OneResultPerRequest ==
  (pc = "awaitSend" /\ sent.kind = "batch") =>
    LET names == CallNames(result.parts)
    IN  /\ Len(names) >= 1
        /\ Len(sent.batch) = Len(names)
        /\ \A i \in 1..Len(names) : sent.batch[i].name = names[i]

\* C1 witness: a batch of two responses, a success and an error, for two
\* calls of different names.
C1_Witness ==
  /\ pc = "awaitSend"
  /\ sent.kind = "batch"
  /\ Len(sent.batch) = 2
  /\ sent.batch[1].kind = "content"
  /\ sent.batch[2].kind = "error"
  /\ sent.batch[1].name # sent.batch[2].name
  /\ CallNames(result.parts) = << sent.batch[1].name, sent.batch[2].name >>

\* C2: an action is executed only if the lower-cased answer to its own prompt
\* is exactly "y"; every other answer executes nothing, and unless it is
\* "skip" when lower-cased the result is the denial.
C2_FailClosedApproval ==
  Handled =>
    /\ (last.ran \/ last.changed) => toLowerCase(answer) = <<"y">>
    /\ toLowerCase(answer) # <<"y">> => (~last.ran /\ ~last.changed /\ ~last.threw)
    /\ toLowerCase(answer) \notin { <<"y">>, <<"s", "k", "i", "p">> } =>
         LastResponse = ErrorResponse(LastCall.name, DeniedMsg)

\* C2 witness: the first call of a batch was approved and ran; "yes" was
\* answered to the write_file call after it, which was denied and not run.
C2_Witness ==
  /\ Handled
  /\ idx = 3
  /\ functionResponses[1].kind = "content"
  /\ functionResponses[1].name = "run_shell_command"
  /\ answer = <<"y", "e", "s">>
  /\ LastCall.name = "write_file"
  /\ LastResponse = ErrorResponse("write_file", DeniedMsg)
  /\ ~last.ran
  /\ file = Missing

\* C3: when the run ends without a transport failure, it has printed the
\* text of the last turn, which holds no function call, after N + 1
\* sendMessage calls for N turns with function calls and one approval prompt
\* per function call received.
C3_LoopTermination ==
  (pc = "exited" /\ userPrompt # << >> /\ ~transportFailed) =>
    /\ ~ResultHasCall
    /\ printed = TextOf(result.parts)
    /\ sendCount = fcTurns + 1
    /\ promptCount = sumBatch

\* C4: a run ends before a final-text turn only by a transport failure, and
\* a failure while a call is handled becomes an error result for that call.
C4_OnlyTransportFailureTerminates ==
  /\ (pc = "exited" /\ userPrompt # << >> /\ printed = NotPrinted) => transportFailed
  /\ (Handled /\ last.threw) => LastResponse.kind = "error"

\* C5: when the execution of an approved action throws, the result pushed is
\* the error response with the failure message, never a content response.
C5_ThrownFailureIsErrorResult ==
  (Handled /\ last.threw) =>
    LastResponse = ErrorResponse(LastCall.name, last.errorMsg)

\* C6: a denied or skipped action executes nothing and changes no file or
\* directory; its result is the error "User denied permission." or "User
\* explicitly skipped this action.", pushed into the slot of the call, and
\* the loop goes on to the next call either way.
C6_DenyAndSkipExecuteNothing ==
  (Handled /\ toLowerCase(answer) # <<"y">>) =>
    /\ ~last.ran /\ ~last.changed /\ ~last.threw
    /\ Len(functionResponses) = idx - 1
    /\ LastResponse =
         ErrorResponse(LastCall.name,
                       IF toLowerCase(answer) = <<"s", "k", "i", "p">>
                       THEN SkippedMsg ELSE DeniedMsg)

\* C6 witness: a write_file call was skipped with the answer "SKIP".
C6_Witness ==
  /\ Handled
  /\ answer = <<"S", "K", "I", "P">>
  /\ LastCall.name = "write_file"
  /\ LastResponse = ErrorResponse("write_file", SkippedMsg)
  /\ file = Missing

\* C7: at most one sendMessage call is outstanding and none while a turn's
\* calls are handled or a prompt is pending; between receiving a turn with
\* function calls and sending its results no send is made, and the one send
\* of the batch is made after every call received has been prompted.
C7_OneSendPerBatch ==
  /\ outstanding \in {0, 1}
  /\ (outstanding = 1) = (pc = "awaitSend")
  /\ pc \in {"for", "ask"} =>
       (sendCount = fcTurns /\ Len(functionResponses) = idx - 1)
  /\ pc = "ask" => promptCount = sumBatch - Len(functionCalls) + idx
  /\ pc = "awaitSend" => (sendCount = fcTurns + 1 /\ promptCount = sumBatch)

\* C7 witness: the second send of a run, with the two results of a batch.
C7_Witness ==
  /\ pc = "awaitSend"
  /\ sendCount = 2
  /\ sent.kind = "batch"
  /\ Len(sent.batch) = 2
  /\ promptCount = 2

\* C8: the calls of a turn are handled, and nothing is printed, exactly when
\* the turn holds a function call; what is printed as "[Gemini]" is the text
\* of the first turn without a function call.
C8_TerminalIffNoFunctionCall ==
  /\ pc \in {"for", "ask"} => (ResultHasCall /\ printed = NotPrinted)
  /\ printed # NotPrinted =>
       (~ResultHasCall /\ printed = TextOf(result.parts) /\ sendCount = fcTurns + 1)
  /\ (pc = "exited" /\ sendCount > 0 /\ ~transportFailed /\ ~ResultHasCall) =>
       printed # NotPrinted

\* C8 witness: the calls of a turn that also carries text are being handled
\* and nothing has been printed.
C8_Witness ==
  /\ pc = "ask"
  /\ \E i \in 1..Len(result.parts) : result.parts[i].kind = "text"
  /\ ResultHasCall
  /\ printed = NotPrinted

\* C9: the readline interface is closed whenever the program has exited.
C9_InputHandleClosedOnEveryExit ==
  pc = "exited" => ~rlOpen

\* C10: the content returned for an approved run_shell_command is the output
\* itself when it has at most OutputBound characters, and otherwise its first
\* OutputBound characters followed by the truncation marker, once.
C10_ShellOutputTruncation ==
  (Handled /\ LastCall.name = "run_shell_command" /\ last.ran /\ ~last.threw) =>
    LET c == LastResponse.content
    IN  /\ LastResponse.kind = "content"
        /\ Len(last.raw) <= OutputBound => c = last.raw
        /\ Len(last.raw) > OutputBound =>
             /\ Len(c) = OutputBound + Len(TruncationMarker)
             /\ SubSeq(c, 1, OutputBound) = SubSeq(last.raw, 1, OutputBound)
             /\ SubSeq(c, OutputBound + 1, Len(c)) = TruncationMarker

\* C10 witness: an output of OutputBound + 7 characters was cut.
C10_Witness ==
  /\ Handled
  /\ LastCall.name = "run_shell_command"
  /\ Len(last.raw) = OutputBound + 7
  /\ Len(LastResponse.content) = OutputBound + Len(TruncationMarker)

\* C10 witness of the other side: an output of exactly OutputBound characters
\* came back whole.
C10_WitnessWhole ==
  /\ Handled
  /\ LastCall.name = "run_shell_command"
  /\ Len(last.raw) = OutputBound
  /\ LastResponse.content = last.raw

\* C11: the calls of a batch are handled one after another in the order
\* received: the prompt pending is that of the idx-th function call of the
\* turn, every call before it has its result, in order, exactly one prompt
\* is unanswered while a prompt is pending and none otherwise, and an
\* execution is that of the call just prompted.
C11_SequentialInOrder ==
  LET names == CallNames(result.parts)
      answered == sumBatch - Len(functionCalls) + Len(functionResponses)
  IN  /\ pc \in {"for", "ask"} =>
           /\ Len(functionResponses) = idx - 1
           /\ \A i \in 1..Len(functionResponses) : functionResponses[i].name = names[i]
      /\ pc = "ask" =>
           /\ idx <= Len(names)
           /\ shown.name = names[idx]
           /\ promptCount = answered + 1
      /\ pc = "for" => promptCount = answered
      /\ (Handled /\ last.ran) => shown.name = names[idx - 1]

\* C11 witness: the prompt of the second call is pending after the first
\* call, a write_file, was approved and has written the file.
C11_Witness ==
  /\ pc = "ask"
  /\ idx = 2
  /\ functionResponses[1].kind = "content"
  /\ functionResponses[1].name = "write_file"
  /\ file = <<"x">>
  /\ shown.name = "read_file"

\* C12: once a sendMessage call has failed the run is over: the fatal error
\* was printed once, no call is outstanding and no step of run() can follow.
C12_AbortAfterTransportFailure ==
  transportFailed =>
    /\ pc = "exited"
    /\ fatal = 1
    /\ outstanding = 0
    /\ sent = NoMessage
    /\ ~ENABLED Next

\* C12 witness: the send of a batch of two results was rejected.
C12_Witness ==
  /\ transportFailed
  /\ sendCount = 2
  /\ promptCount = 2
  /\ ~result.malformed
  /\ fatal = 1

\* C13: the content returned for an approved action of any kind has at most
\* OutputBound characters plus the truncation marker.
C13_BoundedResult ==
  (Handled /\ toLowerCase(answer) = <<"y">> /\ LastResponse.kind = "content") =>
    Len(LastResponse.content) <= OutputBound + Len(TruncationMarker)

\* C14: an approved action whose name is none of the three known names gets
\* an error result.
C14_UnknownActionIsError ==
  (Handled /\ toLowerCase(answer) = <<"y">>
     /\ LastCall.name \notin {"run_shell_command", "write_file", "read_file"}) =>
    LastResponse.kind = "error"

\* the call at position i of a turn that holds function calls only
ReceivedCall(i) == result.parts[i].functionCall

\* C15: the argument text shown in the prompt is the serialized args, cut to
\* their first DisplayBound characters plus the ellipsis when they are
\* longer; an approved write_file writes the content received, whole, and
\* reports the path received.
C15_DisplayTruncationOnly ==
  /\ pc = "ask" =>
       LET js == JSONStringify(ReceivedCall(idx).args)
       IN  /\ Len(js) <= DisplayBound => shown.args = js
           /\ Len(js) > DisplayBound =>
                /\ Len(shown.args) = DisplayBound + Len(Ellipsis)
                /\ SubSeq(shown.args, 1, DisplayBound) = SubSeq(js, 1, DisplayBound)
                /\ SubSeq(shown.args, DisplayBound + 1, Len(shown.args)) = Ellipsis
  /\ (Handled /\ LastCall.name = "write_file" /\ last.ran /\ ~last.threw) =>
       /\ file = Utf8Encode(ReceivedCall(idx - 1).args.content)
       /\ LastResponse.content = WrotePrefix \o ReceivedCall(idx - 1).args.path

\* C15 witness: the prompt showed the args cut to DisplayBound characters
\* plus the ellipsis, and the approved write_file wrote all DisplayBound + 50
\* characters of the content.
C15_Witness ==
  /\ Handled
  /\ LastCall.name = "write_file"
  /\ Len(shown.args) = DisplayBound + Len(Ellipsis)
  /\ last.ran /\ ~last.threw
  /\ Len(file) = DisplayBound + 50

\* the batch is read_file, write_file, read_file of one path, the first read
\* returned content, and the write carries exactly that content
RoundTripBatch ==
  /\ Len(functionCalls) = 3
  /\ functionCalls[1].name = "read_file"
  /\ functionCalls[2].name = "write_file"
  /\ functionCalls[3].name = "read_file"
  /\ functionCalls[1].args.path = functionCalls[2].args.path
  /\ functionCalls[3].args.path = functionCalls[2].args.path
  /\ Len(functionResponses) >= 2
  /\ functionResponses[1].kind = "content"
  /\ functionCalls[2].args.content = functionResponses[1].content

\* C16: when an approved read_file returned content, a write_file of that
\* content to the same path was carried out, or denied or skipped, and an
\* approved read_file of the path returned content again, both reads returned
\* the same content; a denied or skipped write_file changes nothing on disk.
C16_ReadWriteReadRoundTrip ==
  /\ (RoundTripBatch /\ idx = 3 /\ Handled
        /\ functionResponses[2].error \in {DeniedMsg, SkippedMsg}) => ~last.changed
  /\ (RoundTripBatch /\ Len(functionResponses) = 3
        /\ (\/ functionResponses[2].content = WrotePrefix \o functionCalls[2].args.path
            \/ functionResponses[2].error \in {DeniedMsg, SkippedMsg})
        /\ functionResponses[3].kind = "content") =>
       functionResponses[3].content = functionResponses[1].content

\* C16 witness: the file held a byte that is not UTF-8, the first read
\* returned U+FFFD for it, the write of that content replaced the byte, and
\* the second read returned the same content.
C16_Witness ==
  /\ RoundTripBatch
  /\ Len(functionResponses) = 3
  /\ functionResponses[1].content = <<"x", ReplacementChar>>
  /\ functionResponses[2].content = WrotePrefix \o FilePath
  /\ functionResponses[3].content = <<"x", ReplacementChar>>
  /\ file = <<"x", ReplacementBytes>>

\* C17: with config.json missing, unreadable, not JSON, or JSON without a
\* usable models mapping or default alias, module load never crashes and ends
\* with the hardcoded config and the model gemini-3-flash; a -m value that is
\* no alias of the models mapping ends with the model of the default alias.
C17_ConfigFallback ==
  /\ load.cfgFile # "well-formed" =>
       /\ load.pc # "crashed"
       /\ load.pc = "loaded" =>
            load.config = HardcodedConfig /\ load.model = "gemini-3-flash"
  /\ (load.pc = "loaded" /\ load.flag \notin ModelAliases \cup {NoFlag}) =>
       load.model = Lookup(load.config.models, load.config.defaultModel)

\* C18: in the loop of part_001, the message sent back after a turn holds as
\* many function responses as the turn holds function calls, the i-th
\* response named after the i-th call.
C18_OldLoopKeepsCorrelation ==
  sent.kind = "batch" =>
    LET calls == FunctionCallsOf(result.parts)
    IN  /\ Len(sent.batch) = Len(calls)
        /\ \A i \in DOMAIN sent.batch : sent.batch[i].name = calls[i].name

====
